---- MODULE Spec2Model ----
(***************************************************************************)
(* Model of the YoungAIVagent video localisation pipeline:                 *)
(*   app.py            process_video, the Streamlit session state          *)
(*   translator.py     translate_text_libretranslate, translate_srt, ...   *)
(*   subtitle_burner.py, video_handler.py, transcriber.py, utils.py        *)
(* External capabilities (ffmpeg, ffprobe, Whisper, the translation HTTP   *)
(* services, the file system) are the environment: each call's outcome is  *)
(* chosen nondeterministically from the outcomes the call site can see.    *)
(***************************************************************************)
EXTENDS Integers, Sequences, FiniteSets, TLC

(***************************************************************************)
(* Bounds of the model.                                                    *)
(***************************************************************************)
\* uploads (scratch directories) created in one session
MaxJobs == 1
\* target languages selected for one Job
MaxLangs == 2
\* length of the language list given to batch_translate_srt
MaxBatch == 3
\* blocks of a subtitle file given to parse_srt_file
MaxBlocks == 3
\* cues given to create_translated_srt, segments given to create_srt_from_segments
MaxCues == 2

(***************************************************************************)
(* Python dicts: insertion-ordered sequences of <<key, value>> pairs.      *)
(***************************************************************************)
DictKeys(d) == {d[k][1] : k \in 1..Len(d)}

DictHas(d, key) == \E k \in 1..Len(d) : d[k][1] = key

DictGet(d, key) == d[CHOOSE k \in 1..Len(d) : d[k][1] = key][2]

\* d[key] = value: replaces the value in place, or appends a new key
DictSet(d, key, value) ==
    IF DictHas(d, key)
    THEN [k \in 1..Len(d) |-> IF d[k][1] = key THEN <<key, value>> ELSE d[k]]
    ELSE Append(d, <<key, value>>)

\* {**b}: the merge without its first dict
DictMergeSecondOnly(a, b) == b

\* {**a, **b}
DictMerge(a, b) ==
    LET RECURSIVE Go(_, _)
        Go(acc, k) == IF k > Len(b) THEN acc
                      ELSE Go(DictSet(acc, b[k][1], b[k][2]), k + 1)
    IN Go(a, 1)

(***************************************************************************)
(* Languages.                                                              *)
(***************************************************************************)
\* translator.py LANGUAGE_MAP
LANGUAGE_MAP ==
    << <<"Hebrew", "he">>, <<"Spanish", "es">>, <<"French", "fr">>,
       <<"German", "de">>, <<"Italian", "it">>, <<"Portuguese", "pt">>,
       <<"Arabic", "ar">>, <<"Russian", "ru">>, <<"Chinese", "zh">>,
       <<"Japanese", "ja">> >>

\* utils.py get_available_languages
get_available_languages ==
    << <<"Hebrew", "he">>, <<"Spanish", "es">>, <<"French", "fr">>,
       <<"German", "de">>, <<"Italian", "it">>, <<"Portuguese", "pt">>,
       <<"Arabic", "ar">>, <<"Russian", "ru">>, <<"Chinese", "zh">>,
       <<"Japanese", "ja">>, <<"Korean", "ko">>, <<"Dutch", "nl">>,
       <<"Swedish", "sv">>, <<"Norwegian", "no">>, <<"Danish", "da">> >>

\* the options of the language multiselect of main()
MultiselectOptions ==
    <<"Hebrew", "Spanish", "French", "German", "Italian", "Portuguese">>

\* str.lower() on the language names the model uses
Lower(name) ==
    CASE name = "Hebrew" -> "hebrew"
      [] name = "Spanish" -> "spanish"
      [] name = "French" -> "french"
      [] name = "German" -> "german"
      [] name = "Italian" -> "italian"
      [] name = "Portuguese" -> "portuguese"
      [] name = "Arabic" -> "arabic"
      [] name = "Russian" -> "russian"
      [] name = "Chinese" -> "chinese"
      [] name = "Japanese" -> "japanese"
      [] name = "Korean" -> "korean"
      [] name = "Dutch" -> "dutch"
      [] name = "Swedish" -> "swedish"
      [] name = "Norwegian" -> "norwegian"
      [] name = "Danish" -> "danish"
      [] OTHER -> name

(***************************************************************************)
(* Paths: os.path.join(dir, f"{stem}{suffix}.{ext}").                      *)
(***************************************************************************)
Path(dir, stem, suffix, ext) ==
    [dir |-> dir, stem |-> stem, suffix |-> suffix, ext |-> ext]

NoPath == Path(0, "", "", "")

\* the name of the uploaded file is video.mp4 in every Job
VideoStem == "video"

(***************************************************************************)
(* Subtitle text: the blocks of an SRT file, each block its lines.         *)
(***************************************************************************)
Cue1 == <<"1", "00:00:01,000 --> 00:00:03,000", "Hello world">>

Cue2 == <<"2", "00:00:04,000 --> 00:00:05,000", "<i>Bye</i>">>

BadBlock == <<"x", "00:00:06,000 --> 00:00:07,000", "oops">>

\* the strings int() accepts, among the first lines the model uses
IntLiterals == {"0", "1", "2", "3", "-1", "01"}

\* int(s) for s in IntLiterals
IntOf(s) ==
    CASE s = "0" -> 0
      [] s = "1" -> 1
      [] s = "2" -> 2
      [] s = "3" -> 3
      [] s = "-1" -> -1
      [] s = "01" -> 1

\* transcripts the speech-to-text service may return
Transcripts == { <<>>, <<BadBlock>>, <<Cue1, Cue2>> }

\* the loop of parse_srt_file over the blocks of the file
parse_srt_file(blocks) ==
    LET RECURSIVE Go(_, _)
        Go(acc, k) ==
            IF k > Len(blocks) THEN acc
            ELSE LET lines == blocks[k] IN
                 IF Len(lines) >= 3 /\ lines[1] \in IntLiterals
                 THEN Go(Append(acc, [index |-> IntOf(lines[1]),
                                      timestamp |-> lines[2],
                                      text |-> SubSeq(lines, 3, Len(lines))]),
                         k + 1)
                 ELSE Go(acc, k + 1)
    IN Go(<<>>, 1)

(***************************************************************************)
(* translate_text_libretranslate and translate_text_fallback.              *)
(* A text is a sequence of lines.  A response of a service is a record     *)
(* [kind, body]; the kinds are the ways the HTTP call can end.             *)
(***************************************************************************)
\* a line longer than 500 characters, and its first 500 characters
LongLine == "LONG"

LongLine500 == "LONG[:500]"

\* text[:500]
Truncate500(text) ==
    [k \in 1..Len(text) |-> IF text[k] = LongLine THEN LongLine500 ELSE text[k]]

Returned(v, calls) == [raised |-> FALSE, value |-> v, exc |-> "", calls |-> calls]

Raised(e, calls) == [raised |-> TRUE, value |-> <<>>, exc |-> e, calls |-> calls]

\* the exception classes below requests.exceptions.RequestException
IsRequestException(exc) ==
    exc \in {"ConnectionError", "Timeout", "HTTPError", "RequestsJSONDecodeError"}

\* the classes caught by `except Exception`
IsException(exc) ==
    IsRequestException(exc) \/ exc \in {"ValueError", "AttributeError", "KeyError",
                                         "TypeError", "OSError",
                                         "FileNotFoundError", "Exception"}

\* the ways the primary call can end; "bad_json" is a 200 response whose body
\* is not JSON: response.json() raises requests' JSONDecodeError (a
\* RequestException) or a plain ValueError, depending on the requests version
PrimaryKinds ==
    {"ok", "no_key", "not_dict", "bad_json_requests", "bad_json_value",
     "http_error", "connection_error", "timeout"}

\* lines 44-48: the body of the try block of translate_text_libretranslate
PrimaryTry(text, resp) ==
    CASE resp.kind = "connection_error" -> Raised("ConnectionError", <<>>)
      [] resp.kind = "timeout" -> Raised("Timeout", <<>>)
      [] resp.kind = "http_error" -> Raised("HTTPError", <<>>)
      [] resp.kind = "bad_json_requests" -> Raised("RequestsJSONDecodeError", <<>>)
      [] resp.kind = "bad_json_value" -> Raised("ValueError", <<>>)
      [] resp.kind = "not_dict" -> Raised("AttributeError", <<>>)
      [] resp.kind = "no_key" -> Returned(text, <<>>)
      [] resp.kind = "ok" -> Returned(resp.body, <<>>)

FallbackKinds ==
    {"ok", "status_not_200", "no_data", "not_dict", "bad_json",
     "http_error", "connection_error", "timeout"}

\* lines 71-83: the body of the try block of translate_text_fallback;
\* value <<>> with returned = FALSE is falling out of the try block
FallbackTry(text, resp) ==
    CASE resp.kind = "connection_error" -> Raised("ConnectionError", <<>>)
      [] resp.kind = "timeout" -> Raised("Timeout", <<>>)
      [] resp.kind = "http_error" -> Raised("HTTPError", <<>>)
      [] resp.kind = "bad_json" -> Raised("RequestsJSONDecodeError", <<>>)
      [] resp.kind = "not_dict" -> Raised("AttributeError", <<>>)
      [] resp.kind = "no_data" -> Raised("KeyError", <<>>)
      [] resp.kind = "status_not_200" -> Returned(text, <<>>)
      [] resp.kind = "ok" -> Returned(resp.body, <<>>)

FallbackCall(text) == [service |-> "fallback", q |-> Truncate500(text)]

\* translate_text_fallback with `except requests.exceptions.RequestException`
\* in place of `except Exception`
translate_text_fallback_narrow(text, resp) ==
    IF ~FallbackTry(text, resp).raised
    THEN Returned(FallbackTry(text, resp).value, <<FallbackCall(text)>>)
    ELSE IF IsRequestException(FallbackTry(text, resp).exc)
    THEN Returned(text, <<FallbackCall(text)>>)
    ELSE Raised(FallbackTry(text, resp).exc, <<FallbackCall(text)>>)

translate_text_fallback(text, resp) ==
    LET r == FallbackTry(text, resp) IN
    IF ~r.raised THEN Returned(r.value, <<FallbackCall(text)>>)
    ELSE IF IsException(r.exc) THEN Returned(text, <<FallbackCall(text)>>)
    ELSE Raised(r.exc, <<FallbackCall(text)>>)

PrimaryCall(text) == [service |-> "primary", q |-> text]

\* translate_text_libretranslate taking an answer equal to the input for a
\* failure of the primary service
translate_text_libretranslate_retry(text, primary, fallback) ==
    IF PrimaryTry(text, primary).raised \/ PrimaryTry(text, primary).value = text
    THEN [translate_text_fallback(text, fallback) EXCEPT
             !.calls = <<PrimaryCall(text)>> \o @]
    ELSE Returned(PrimaryTry(text, primary).value, <<PrimaryCall(text)>>)

translate_text_libretranslate(text, primary, fallback) ==
    LET r == PrimaryTry(text, primary) IN
    IF ~r.raised THEN Returned(r.value, <<PrimaryCall(text)>>)
    ELSE IF IsRequestException(r.exc)
         THEN LET f == translate_text_fallback(text, fallback) IN
              [f EXCEPT !.calls = <<PrimaryCall(text)>> \o f.calls]
    ELSE IF IsException(r.exc) THEN Returned(text, <<PrimaryCall(text)>>)
    ELSE Raised(r.exc, <<PrimaryCall(text)>>)

(***************************************************************************)
(* translate_srt and create_translated_srt.                                *)
(***************************************************************************)
\* re.sub(r'<[^>]+>', '', line) on the lines the model uses
StripTags(line) ==
    CASE line = "<i>Bye</i>" -> "Bye"
      [] line = "<b></b>" -> ""
      [] OTHER -> line

\* str.strip() of the joined lines: empty lines at both ends go
RECURSIVE StripEnds(_)
StripEnds(text) ==
    IF text = <<>> THEN text
    ELSE IF Head(text) = "" THEN StripEnds(Tail(text))
    ELSE IF text[Len(text)] = "" THEN StripEnds(SubSeq(text, 1, Len(text) - 1))
    ELSE text

\* translate_srt sending the text with its tags
CleanTextKeepingTags(text) == StripEnds(text)

\* lines 172-173 of translate_srt
CleanText(text) == StripEnds([k \in 1..Len(text) |-> StripTags(text[k])])

SrtResult(raised, exc, reason, path, subtitles, parsed, calls) ==
    [raised |-> raised, exc |-> exc, reason |-> reason, path |-> path,
     subtitles |-> subtitles, parsed |-> parsed, calls |-> calls]

\* the output path without the language: f"{base_name}.srt"
TranslatedPathNoLanguage(output_dir, stem, target_language) ==
    Path(output_dir, stem, "", "srt")

\* lines 194-197 of translate_srt
TranslatedPath(output_dir, stem, target_language) ==
    Path(output_dir, stem, Lower(target_language), "srt")

\* the loop of translate_srt numbering the translated subtitles 1, 2, ...
TranslateLoopRenumbering(subtitles, svc) ==
    LET RECURSIVE Go(_, _, _)
        Go(acc, calls, k) ==
            IF k > Len(subtitles) THEN Returned(acc, calls)
            ELSE IF CleanText(subtitles[k].text) # <<>>
            THEN Go(Append(acc, [index |-> k,
                                 timestamp |-> subtitles[k].timestamp,
                                 text |-> translate_text_libretranslate(
                                              CleanText(subtitles[k].text),
                                              svc[k].primary, svc[k].fallback).value]),
                    calls \o translate_text_libretranslate(
                                 CleanText(subtitles[k].text),
                                 svc[k].primary, svc[k].fallback).calls,
                    k + 1)
            ELSE Go(Append(acc, [index |-> k,
                                 timestamp |-> subtitles[k].timestamp,
                                 text |-> subtitles[k].text]),
                    calls, k + 1)
    IN Go(<<>>, <<>>, 1)

\* lines 170-192: the loop of translate_srt; svc[k] are the responses the two
\* translation services give for the k-th subtitle
TranslateLoop(subtitles, svc) ==
    LET RECURSIVE Go(_, _, _)
        Go(acc, calls, k) ==
            IF k > Len(subtitles) THEN Returned(acc, calls)
            ELSE LET subtitle == subtitles[k]
                     clean_text == CleanText(subtitle.text)
                 IN IF clean_text # <<>>
                    THEN LET r == translate_text_libretranslate(
                                      clean_text, svc[k].primary, svc[k].fallback)
                         IN IF r.raised THEN Raised(r.exc, calls \o r.calls)
                            ELSE Go(Append(acc, [index |-> subtitle.index,
                                                 timestamp |-> subtitle.timestamp,
                                                 text |-> r.value]),
                                    calls \o r.calls, k + 1)
                    ELSE Go(Append(acc, [index |-> subtitle.index,
                                         timestamp |-> subtitle.timestamp,
                                         text |-> subtitle.text]),
                            calls, k + 1)
    IN Go(<<>>, <<>>, 1)

\* exists, blocks: whether srt_path exists, and the blocks of its text;
\* write_ok: whether open(output_path, 'w') and the writes succeed
translate_srt(exists, blocks, stem, target_language, output_dir, svc, write_ok) ==
    IF ~DictHas(LANGUAGE_MAP, target_language)
    THEN SrtResult(TRUE, "ValueError", "Unsupported language", NoPath, <<>>, FALSE, <<>>)
    ELSE IF ~exists
    THEN SrtResult(TRUE, "OSError", "No such file", NoPath, <<>>, FALSE, <<>>)
    ELSE LET subtitles == parse_srt_file(blocks) IN
         IF subtitles = <<>>
         THEN SrtResult(TRUE, "ValueError", "No subtitles found in SRT file",
                        NoPath, <<>>, TRUE, <<>>)
         ELSE LET t == TranslateLoop(subtitles, svc) IN
              IF t.raised
              THEN SrtResult(TRUE, t.exc, "translation raised", NoPath, <<>>, TRUE, t.calls)
              ELSE IF ~write_ok
              THEN SrtResult(TRUE, "OSError", "cannot write", NoPath, <<>>, TRUE, t.calls)
              ELSE SrtResult(FALSE, "", "",
                             TranslatedPath(output_dir, stem, target_language),
                             t.value, TRUE, t.calls)

\* create_translated_srt: the blocks written for a list of subtitles
create_translated_srt(subtitles) ==
    [k \in 1..Len(subtitles) |->
        <<ToString(subtitles[k].index), subtitles[k].timestamp>> \o subtitles[k].text]

(***************************************************************************)
(* The text of a subtitle file: its lines (content.split("\n")).  Lines    *)
(* 104 and 108 of parse_srt_file cut it into blocks.                       *)
(***************************************************************************)
\* the lines re's \s* matches whole, among the lines the model uses
IsBlankLine(line) == line \in {"", " "}

\* str.lstrip() and str.rstrip() on the lines the model uses
LStrip(line) ==
    CASE line = " Hello" -> "Hello"
      [] line = " Hi " -> "Hi "
      [] OTHER -> line

RStrip(line) ==
    CASE line = "Hello " -> "Hello"
      [] line = " Hi " -> " Hi"
      [] line = "Hi " -> "Hi"
      [] OTHER -> line

Strip(line) == RStrip(LStrip(line))

\* block.strip().split('\n') of a block without blank lines
StripBlock(lines) ==
    [k \in 1..Len(lines) |->
        IF k = 1 /\ k = Len(lines) THEN Strip(lines[k])
        ELSE IF k = 1 THEN LStrip(lines[k])
        ELSE IF k = Len(lines) THEN RStrip(lines[k])
        ELSE lines[k]]

\* re.split(r'\n\s*\n', content.strip()) and the strip of each block: the
\* blocks are the runs of lines between blank lines
SplitBlocks(lines) ==
    LET RECURSIVE Go(_, _, _)
        Go(acc, cur, k) ==
            IF k > Len(lines)
            THEN IF cur = <<>> THEN acc ELSE Append(acc, StripBlock(cur))
            ELSE IF IsBlankLine(lines[k])
            THEN Go(IF cur = <<>> THEN acc ELSE Append(acc, StripBlock(cur)), <<>>, k + 1)
            ELSE Go(acc, Append(cur, lines[k]), k + 1)
    IN Go(<<>>, <<>>, 1)

\* lines 137-140 of create_translated_srt: the lines of the file written,
\* every block followed by an empty line
SrtFileLines(blocks) ==
    LET RECURSIVE Go(_, _)
        Go(acc, k) == IF k > Len(blocks) THEN acc
                      ELSE Go(acc \o blocks[k] \o <<"">>, k + 1)
    IN Go(<<>>, 1)

(***************************************************************************)
(* transcriber.py: format_srt_timestamp and create_srt_from_segments.      *)
(* A time is a whole number of milliseconds; a formatted timestamp is the  *)
(* tuple of the four numbers the f-string prints.                          *)
(***************************************************************************)
format_srt_timestamp(t) ==
    << t \div 3600000, (t % 3600000) \div 60000, (t % 60000) \div 1000, t % 1000 >>

\* create_srt_from_segments with enumerate(segments) counting from 0
create_srt_from_segments_enumerate0(segments, write_ok) ==
    IF ~write_ok THEN Raised("Exception", <<>>)
    ELSE Returned([i \in 1..Len(segments) |->
                      [index |-> i - 1,
                       timestamp |-> <<format_srt_timestamp(segments[i].start),
                                       format_srt_timestamp(segments[i].end)>>,
                       text |-> Strip(segments[i].text)]], <<>>)

\* lines 105-119: the entries written for the segments, or the exception of
\* the handler when the file cannot be written
create_srt_from_segments(segments, write_ok) ==
    IF ~write_ok THEN Raised("Exception", <<>>)
    ELSE Returned([i \in 1..Len(segments) |->
                      [index |-> i,
                       timestamp |-> <<format_srt_timestamp(segments[i].start),
                                       format_srt_timestamp(segments[i].end)>>,
                       text |-> Strip(segments[i].text)]], <<>>)

(***************************************************************************)
(* The media tool calls: an ffmpeg run ends in one of FfmpegKinds, with    *)
(* the text it wrote to stderr.                                            *)
(***************************************************************************)
FfmpegKinds == {"exit0_output", "exit0_no_output", "nonzero", "timeout", "not_installed"}

Stderr == "STDERR"

ToolResult(raised, exc, reason, path) ==
    [raised |-> raised, exc |-> exc, reason |-> reason, path |-> path]

\* extract_audio_from_video; CalledProcessError(returncode, cmd, result.stderr)
\* passes the text as `output`, so e.stderr is None in the handler of line 129
extract_audio_from_video(video_exists, audio_path, ffmpeg) ==
    IF ~video_exists
    THEN ToolResult(TRUE, "FileNotFoundError", <<"Video file not found">>, NoPath)
    ELSE CASE ffmpeg = "nonzero" ->
                ToolResult(TRUE, "Exception", <<"Audio extraction failed: ", "None">>, NoPath)
           [] ffmpeg = "exit0_no_output" ->
                ToolResult(TRUE, "Exception",
                           <<"Error extracting audio: ",
                             "Audio extraction failed - output file not created">>, NoPath)
           [] ffmpeg = "timeout" ->
                ToolResult(TRUE, "Exception", <<"Error extracting audio: ", "timed out">>, NoPath)
           [] ffmpeg = "not_installed" ->
                ToolResult(TRUE, "Exception", <<"Error extracting audio: ", "No such file">>, NoPath)
           [] ffmpeg = "exit0_output" ->
                ToolResult(FALSE, "", <<>>, audio_path)

\* burn_subtitles_to_video, lines 23-97
burn_subtitles_to_video(video_exists, srt_exists, output_path, ffmpeg) ==
    IF ~video_exists
    THEN ToolResult(TRUE, "FileNotFoundError", <<"Video file not found">>, NoPath)
    ELSE IF ~srt_exists
    THEN ToolResult(TRUE, "FileNotFoundError", <<"SRT file not found">>, NoPath)
    ELSE CASE ffmpeg = "nonzero" ->
                ToolResult(TRUE, "Exception",
                           <<"FFmpeg failed with return code", "Error output: ", Stderr>>,
                           NoPath)
           [] ffmpeg = "exit0_no_output" ->
                ToolResult(TRUE, "Exception",
                           <<"Failed to burn subtitles: ", "Output video was not created">>,
                           NoPath)
           [] ffmpeg = "timeout" ->
                ToolResult(TRUE, "Exception",
                           <<"Video processing timed out after 1 hour">>, NoPath)
           [] ffmpeg = "not_installed" ->
                ToolResult(TRUE, "Exception",
                           <<"Failed to burn subtitles: ", "No such file">>, NoPath)
           [] ffmpeg = "exit0_output" ->
                ToolResult(FALSE, "", <<>>, output_path)

\* burn_subtitles_advanced, lines 122-199: every exception of the try block
\* is wrapped by the one handler, and the output file is not looked at
burn_subtitles_advanced(video_exists, srt_exists, output_path, ffmpeg) ==
    IF ~video_exists
    THEN ToolResult(TRUE, "FileNotFoundError", <<"Video file not found">>, NoPath)
    ELSE IF ~srt_exists
    THEN ToolResult(TRUE, "FileNotFoundError", <<"SRT file not found">>, NoPath)
    ELSE CASE ffmpeg = "nonzero" ->
                ToolResult(TRUE, "Exception",
                           <<"Advanced subtitle burning failed: ",
                             "Command returned non-zero exit status">>, NoPath)
           [] ffmpeg = "timeout" ->
                ToolResult(TRUE, "Exception",
                           <<"Advanced subtitle burning failed: ", "timed out">>, NoPath)
           [] ffmpeg = "not_installed" ->
                ToolResult(TRUE, "Exception",
                           <<"Advanced subtitle burning failed: ", "No such file">>, NoPath)
           [] ffmpeg \in {"exit0_output", "exit0_no_output"} ->
                ToolResult(FALSE, "", <<>>, output_path)

\* the ways the ffprobe run of get_video_info can end: a JSON document, a
\* JSON document whose r_frame_rate is 0/0, output that is no JSON, ...
FfprobeKinds ==
    {"exit0_json", "exit0_zero_rate", "exit0_bad_json", "nonzero", "timeout",
     "not_installed"}

\* get_video_info, lines 17-84; CalledProcessError(returncode, cmd,
\* result.stderr) passes the text as `output`, so e.stderr is None at line 80
get_video_info(video_exists, ffprobe) ==
    IF ~video_exists
    THEN ToolResult(TRUE, "FileNotFoundError", <<"Video file not found">>, NoPath)
    ELSE CASE ffprobe = "nonzero" ->
                ToolResult(TRUE, "Exception", <<"Failed to get video info: ", "None">>, NoPath)
           [] ffprobe = "exit0_bad_json" ->
                ToolResult(TRUE, "Exception",
                           <<"Failed to parse video info: ", "Expecting value">>, NoPath)
           [] ffprobe = "exit0_zero_rate" ->
                ToolResult(TRUE, "Exception",
                           <<"Error getting video info: ", "division by zero">>, NoPath)
           [] ffprobe = "timeout" ->
                ToolResult(TRUE, "Exception",
                           <<"Error getting video info: ", "timed out">>, NoPath)
           [] ffprobe = "not_installed" ->
                ToolResult(TRUE, "Exception",
                           <<"Error getting video info: ", "No such file">>, NoPath)
           [] ffprobe = "exit0_json" ->
                ToolResult(FALSE, "", <<>>, NoPath)

(***************************************************************************)
(* The style of the burnt subtitles, lines 36-55 and 134-154.              *)
(***************************************************************************)
position_map ==
    << <<"bottom", "Alignment=2">>, <<"top", "Alignment=8">>,
       <<"center", "Alignment=5">> >>

color_map ==
    << <<"white", "&Hffffff&">>, <<"yellow", "&H00ffff&">>, <<"red", "&H0000ff&">>,
       <<"blue", "&Hff0000&">>, <<"green", "&H00ff00&">>, <<"black", "&H000000&">> >>

\* dict.get(key, default)
DictGetDefault(d, key, default) == IF DictHas(d, key) THEN DictGet(d, key) ELSE default

\* str.lower() on the colour names the model uses
LowerColor(name) ==
    CASE name = "Red" -> "red"
      [] name = "WHITE" -> "white"
      [] name = "Purple" -> "purple"
      [] OTHER -> name

\* the alignment with "top" for the default
AlignmentDefaultTop(position) == DictGetDefault(position_map, position, "Alignment=8")

\* lines 43 and 141
Alignment(position) == DictGetDefault(position_map, position, "Alignment=2")

\* lines 55 and 153
ColorCode(font_color) == DictGetDefault(color_map, LowerColor(font_color), "&Hffffff&")

\* line 154
OutlineColorCode(outline_color) ==
    DictGetDefault(color_map, LowerColor(outline_color), "&H000000&")

\* line 62: the force_style of burn_subtitles_to_video
ForceStyle(font_color, position) ==
    [PrimaryColour |-> ColorCode(font_color), Alignment |-> Alignment(position),
     OutlineColour |-> ""]

\* lines 162-170: the style of burn_subtitles_advanced
AdvancedStyle(font_color, outline_color, position) ==
    [PrimaryColour |-> ColorCode(font_color), Alignment |-> Alignment(position),
     OutlineColour |-> OutlineColorCode(outline_color)]

\* transcribe_video, lines 27-44; whisper is "error" (the audio cannot be
\* read, the API call or the write fails) or "ok"
transcribe_video(whisper, srt_filename) ==
    IF whisper = "error"
    THEN ToolResult(TRUE, "Exception", <<"Transcription failed: ", "API error">>, NoPath)
    ELSE ToolResult(FALSE, "", <<>>, srt_filename)

(***************************************************************************)
(* State.                                                                  *)
(***************************************************************************)
VARIABLES
    \* app.py: one Streamlit session
    pc,                 \* where the script run stands
    jobs,               \* scratch directories created so far (create_temp_dir)
    temp_dir,           \* the scratch directory of the current run
    target_languages,   \* the languages passed to process_video
    idx,                \* the position of the running loop of process_video
    srt_path,           \* the transcript returned by transcribe_video
    srt_text,           \* the blocks of the transcript of the current Job
    translated_files,   \* process_video's dict language -> translated srt
    burned_videos,      \* process_video's dict language -> video
    processing_status,  \* st.session_state.processing_status
    temp_files,         \* st.session_state.temp_files
    dirs,               \* the scratch directories that exist
    files,              \* the files that exist
    status_text,        \* the status line of process_video
    st_errors,          \* the st.error messages of the current run
    calls,              \* the pipeline calls process_video made in this Job
    \* translator.py called on its own
    text_call,          \* a call of translate_text_libretranslate and its services
    text_result,        \* what the call returned
    srt_call,           \* a call of translate_srt
    srt_result,         \* what the call returned
    batch,              \* a run of batch_translate_srt
    \* the subtitle codec and the media tools called on their own
    codec_call,         \* a call of parse_srt_file, create_translated_srt, ...
    codec_result,       \* what the call returned
    tool_call,          \* a call of get_video_info, extract_audio_from_video, ...
    tool_result         \* what the call returned

appVars == <<pc, jobs, temp_dir, target_languages, idx, srt_path, srt_text,
             translated_files, burned_videos, processing_status, temp_files,
             dirs, files, status_text, st_errors, calls>>

textVars == <<text_call, text_result>>

srtVars == <<srt_call, srt_result>>

batchVars == <<batch>>

libVars == <<codec_call, codec_result, tool_call, tool_result>>

vars == <<appVars, textVars, srtVars, batchVars, libVars>>

(***************************************************************************)
(* app.py: main() and process_video.                                       *)
(***************************************************************************)
\* st.session_state.processing_status = {}
EmptyStatus ==
    [set |-> FALSE, original_video |-> NoPath, srt_files |-> <<>>,
     burned_videos |-> <<>>, temp_dir |-> 0]

NoCall == [text |-> <<>>, primary |-> [kind |-> "", body |-> <<>>],
           fallback |-> [kind |-> "", body |-> <<>>], done |-> FALSE]

NoSrtCall == [target_language |-> "", blocks |-> <<>>, mode |-> "", write_ok |-> FALSE,
              done |-> FALSE]

NoBatch == [pc |-> "off", target_languages |-> <<>>, blocks |-> <<>>, failing |-> {},
            idx |-> 0, translated_files |-> <<>>, attempted |-> <<>>]

AppInit ==
    /\ pc = "idle"
    /\ jobs = 0
    /\ temp_dir = 0
    /\ target_languages = <<>>
    /\ idx = 0
    /\ srt_path = NoPath
    /\ srt_text = <<>>
    /\ translated_files = <<>>
    /\ burned_videos = <<>>
    /\ processing_status = EmptyStatus
    /\ temp_files = <<>>
    /\ dirs = {}
    /\ files = {}
    /\ status_text = ""
    /\ st_errors = {}
    /\ calls = <<>>

TextIdle == text_call = NoCall /\ text_result = Returned(<<>>, <<>>)

SrtIdle ==
    /\ srt_call = NoSrtCall
    /\ srt_result = SrtResult(FALSE, "", "", NoPath, <<>>, FALSE, <<>>)

BatchIdle == batch = NoBatch

NoLibCall == [op |-> "", done |-> FALSE]

CodecIdle == codec_call = NoLibCall /\ codec_result = <<>>

ToolIdle == tool_call = NoLibCall /\ tool_result = <<>>

LibIdle == CodecIdle /\ ToolIdle

Init == AppInit /\ TextIdle /\ SrtIdle /\ BatchIdle /\ LibIdle

\* the script is not running: a rerun can start
Idle == pc \in {"idle", "completed", "failed", "returned"}

Exists(path) == path \in files /\ path.dir \in dirs

VideoPath(d) == Path(d, VideoStem, "", "mp4")

\* the selections of the multiselect the model draws: up to MaxLangs of the
\* default selection (Hebrew, Spanish, French), in the order of the options
Selections ==
    {sel \in UNION {[1..n -> 1..3] : n \in 0..MaxLangs} :
        \A a, b \in DOMAIN sel : a < b => sel[a] < sel[b]}

Selected(sel) == [k \in DOMAIN sel |-> MultiselectOptions[sel[k]]]

StError(what, lang, reason) == [what |-> what, lang |-> lang, reason |-> reason]

Call(op, lang, ok) == [op |-> op, lang |-> lang, ok |-> ok]

\* cleanup_temp_files: shutil.rmtree of every listed directory that exists
cleanup_temp_files(temp_dirs, existing) ==
    existing \ {temp_dirs[k] : k \in 1..Len(temp_dirs)}

\* lines 85-91 of main(): a scratch directory with the uploaded video in it
SaveUpload ==
    /\ jobs' = jobs + 1
    /\ temp_dir' = jobs + 1
    /\ dirs' = dirs \cup {jobs + 1}
    /\ files' = files \cup {VideoPath(jobs + 1)}
    /\ temp_files' = Append(temp_files, jobs + 1)

ResetLocals ==
    /\ idx' = 0
    /\ srt_path' = NoPath
    /\ srt_text' = <<>>
    /\ translated_files' = <<>>
    /\ burned_videos' = <<>>
    /\ calls' = <<>>

\* a call that removes the files of the scratch directory when it fails
FilesAfterRemovingOnFailure(r) ==
    IF r.raised THEN {f \in files : f.dir # temp_dir} ELSE files \cup {r.path}

\* the files after a call of process_video returned r: the file a successful
\* call wrote is there, and nothing is removed
FilesAfter(r) == IF r.raised THEN files ELSE files \cup {r.path}

\* the timeout argument of the external calls, in seconds: subprocess.run of
\* ffprobe and ffmpeg, requests.post and requests.get; the call of
\* client.audio.transcriptions.create passes none
CallTimeouts ==
    << <<"probe", 30>>, <<"extract", 600>>, <<"translate_primary", 30>>,
       <<"translate_fallback", 15>>, <<"burn", 3600>> >>

\* the external calls behind a call of process_video
ExternalCalls(op) ==
    CASE op = "extract" -> {"extract"}
      [] op = "transcribe" -> {"transcribe"}
      [] op = "translate" -> {"translate_primary", "translate_fallback"}
      [] op = "burn" -> {"burn"}

\* process_video going on after a failed extraction
AfterExtractIgnoring(r) == "transcribe"

\* lines 142-143: what follows extract_audio_from_video
AfterExtract(r) == IF r.raised THEN "failed" ELSE "transcribe"

\* process_video leaving by the return of line 151 after every transcription
AfterTranscribeReturning(r, exists) == IF r.raised THEN "failed" ELSE "returned"

\* lines 146-153: what follows transcribe_video
AfterTranscribe(r, exists) ==
    IF r.raised THEN "failed" ELSE IF ~exists THEN "returned" ELSE "translate"

\* `except ValueError` around translate_srt
TranslateCatchesValueError(exc) == exc = "ValueError"

\* line 167: except Exception around translate_srt
TranslateCatches(exc) == IsException(exc)

\* lines 186 and 199: except Exception around burn_subtitles_to_video
BurnCatches(exc) == IsException(exc)

\* lines 159, 171-174: the next step of the translation loop
AfterTranslate(i, n) == IF i < n THEN "translate" ELSE "burn_english"

\* line 190: the loop over translated_files after the English render
AfterBurnEnglish(translated) ==
    IF translated = <<>> THEN "completed" ELSE "burn_translated"

\* the render loop left after its first pass
AfterBurnTranslatedReturn(i, n) == "completed"

\* lines 190, 202-205: the next step of the render loop
AfterBurnTranslated(i, n) == IF i < n THEN "burn_translated" ELSE "completed"

\* the manifest without the translated subtitle files
ManifestEnglishOnly(video_path, srt, translated, burned, dir) ==
    [set |-> TRUE, original_video |-> video_path,
     srt_files |-> << <<"English", srt>> >>,
     burned_videos |-> burned, temp_dir |-> dir]

\* lines 209-214: the dict stored in st.session_state.processing_status
Manifest(video_path, srt, translated, burned, dir) ==
    [set |-> TRUE, original_video |-> video_path,
     srt_files |-> DictMerge(<< <<"English", srt>> >>, translated),
     burned_videos |-> burned, temp_dir |-> dir]

\* the handler of process_video storing what the Job has so far
ProcessingFailedStoring(reason) ==
    /\ st_errors' = st_errors \cup {StError("Processing failed", "", reason)}
    /\ status_text' = "Processing failed"
    /\ processing_status' =
         [set |-> TRUE, original_video |-> VideoPath(temp_dir),
          srt_files |-> <<>>, burned_videos |-> <<>>, temp_dir |-> temp_dir]

\* lines 218-220: the handler of process_video; nothing is stored
ProcessingFailed(reason) ==
    /\ st_errors' = st_errors \cup {StError("Processing failed", "", reason)}
    /\ status_text' = "Processing failed"
    /\ processing_status' = processing_status

\* one run of the script with a file in the uploader: the upload is saved and
\* probed, and process_video starts when the Start button was clicked
RunScript ==
    /\ Idle
    /\ jobs < MaxJobs
    /\ SaveUpload
    /\ ResetLocals
    /\ status_text' = ""
    /\ \E probe_ok, clicked \in BOOLEAN, sel \in Selections :
         /\ target_languages' = IF probe_ok /\ clicked THEN Selected(sel) ELSE <<>>
         /\ pc' = IF probe_ok /\ clicked /\ sel # <<>> THEN "extract" ELSE "idle"
         /\ st_errors' =
              IF ~probe_ok THEN {StError("Error reading video info", "", <<>>)}
              ELSE IF clicked /\ sel = <<>>
                   THEN {StError("Please select at least one target language", "", <<>>)}
              ELSE {}
    /\ UNCHANGED processing_status
    /\ UNCHANGED <<textVars, srtVars, batchVars, libVars>>

\* one run of the script with the Clean button clicked (lines 59-62)
CleanTempFiles ==
    /\ Idle
    /\ temp_files # <<>>
    /\ dirs' = cleanup_temp_files(temp_files, dirs)
    /\ files' = {f \in files : f.dir \in dirs'}
    /\ temp_files' = <<>>
    /\ pc' = "idle"
    /\ ResetLocals
    /\ target_languages' = <<>>
    /\ st_errors' = {}
    /\ status_text' = ""
    /\ UNCHANGED <<jobs, temp_dir, processing_status>>
    /\ UNCHANGED <<textVars, srtVars, batchVars, libVars>>

otherVars == <<textVars, srtVars, batchVars, libVars>>

\* Step 1, lines 141-143, given the result r of extract_audio_from_video
ExtractAudioStep(r) ==
    /\ calls' = Append(calls, Call("extract", "", ~r.raised))
    /\ pc' = AfterExtract(r)
    /\ files' = FilesAfter(r)
    /\ IF pc' = "failed" THEN ProcessingFailed(r.reason)
       ELSE status_text' = "Transcribing audio" /\ UNCHANGED <<st_errors, processing_status>>

ExtractAudio ==
    /\ pc = "extract"
    /\ \E ffmpeg \in FfmpegKinds :
         ExtractAudioStep(extract_audio_from_video(
             Exists(VideoPath(temp_dir)), Path(temp_dir, VideoStem, "", "wav"), ffmpeg))
    /\ UNCHANGED <<jobs, temp_dir, target_languages, idx, srt_path, srt_text,
                   translated_files, burned_videos, temp_files, dirs>>
    /\ UNCHANGED otherVars

WhisperResults ==
    {[kind |-> "error", text |-> <<>>]} \cup {[kind |-> "ok", text |-> t] : t \in Transcripts}

\* Step 2, lines 145-153, given the result r of transcribe_video and the text
\* it wrote: the transcript is stored and checked to exist
TranscribeStep(r, text) ==
    /\ calls' = Append(calls, Call("transcribe", "", ~r.raised))
    /\ files' = FilesAfter(r)
    /\ srt_path' = r.path
    /\ srt_text' = IF r.raised THEN <<>> ELSE text
    /\ pc' = AfterTranscribe(r, r.path \in files' /\ r.path.dir \in dirs)
    /\ idx' = IF pc' = "translate" THEN 1 ELSE idx
    /\ CASE pc' = "failed" -> ProcessingFailed(r.reason)
         [] pc' = "returned" ->
              /\ st_errors' = st_errors \cup
                    {StError("Transcription failed - no SRT file generated", "", <<>>)}
              /\ UNCHANGED <<status_text, processing_status>>
         [] OTHER ->
              /\ status_text' = "Translating subtitles"
              /\ UNCHANGED <<st_errors, processing_status>>

Transcribe ==
    /\ pc = "transcribe"
    /\ \E whisper \in WhisperResults :
         TranscribeStep(
             transcribe_video(whisper.kind, Path(temp_dir, "transcription", "", "srt")),
             whisper.text)
    /\ UNCHANGED <<jobs, temp_dir, target_languages, translated_files, burned_videos,
                   temp_files, dirs>>
    /\ UNCHANGED otherVars

\* the translation services answer every subtitle of one translate_srt call
\* alike: both with a translation, or both with a transport error
ServiceModes == {"ok", "connection_error"}

Services(n, mode) ==
    [k \in 1..n |->
        [primary |-> [kind |-> mode, body |-> <<"Hola">>],
         fallback |-> [kind |-> mode, body |-> <<"Hola">>]]]

\* where the translation loop goes after translate_srt returned r
TranslateThen(r) ==
    IF r.raised /\ ~TranslateCatches(r.exc) THEN "failed"
    ELSE AfterTranslate(idx, Len(target_languages))

\* Step 3, lines 159-171: one pass of the translation loop, given the result r
\* of translate_srt for lang
TranslateStep(lang, r) ==
    /\ calls' = Append(calls, Call("translate", lang, ~r.raised))
    /\ translated_files' =
         IF r.raised THEN translated_files ELSE DictSet(translated_files, lang, r.path)
    /\ files' = FilesAfter(r)
    /\ pc' = TranslateThen(r)
    /\ idx' = IF pc' = "translate" THEN idx + 1 ELSE idx
    /\ IF pc' = "failed" THEN ProcessingFailed(<<r.reason>>)
       ELSE /\ st_errors' =
                 IF r.raised
                 THEN st_errors \cup {StError("Translation failed", lang, <<r.reason>>)}
                 ELSE st_errors
            /\ status_text' = IF pc' = "translate" THEN "Translating"
                              ELSE "Burning subtitles to video"
            /\ UNCHANGED processing_status

Translate ==
    /\ pc = "translate"
    /\ \E mode \in ServiceModes, write_ok \in BOOLEAN :
         TranslateStep(target_languages[idx],
                       translate_srt(Exists(srt_path), srt_text, srt_path.stem,
                                     target_languages[idx], temp_dir,
                                     Services(Len(srt_text), mode), write_ok))
    /\ UNCHANGED <<jobs, temp_dir, target_languages, srt_path, srt_text, burned_videos,
                   temp_files, dirs>>
    /\ UNCHANGED otherVars

\* lines 205-216: the results are stored, completion is reported
Finish ==
    /\ processing_status' =
         Manifest(VideoPath(temp_dir), srt_path, translated_files, burned_videos', temp_dir)
    /\ status_text' = "Processing completed successfully!"

\* where process_video goes after burn_subtitles_to_video returned r
BurnThen(r, next) == IF r.raised /\ ~BurnCatches(r.exc) THEN "failed" ELSE next

\* lines 178-187 and 191-200: one call of burn_subtitles_to_video in its try
\* block, given its result r, and next, where the loop goes after it
BurnStep(lang, r, next) ==
    /\ calls' = Append(calls, Call("burn", lang, ~r.raised))
    /\ burned_videos' = IF r.raised THEN burned_videos
                        ELSE DictSet(burned_videos, lang, r.path)
    /\ files' = FilesAfter(r)
    /\ pc' = BurnThen(r, next)
    /\ idx' = IF pc' = "burn_translated"
              THEN (IF pc = "burn_english" THEN 1 ELSE idx + 1) ELSE idx
    /\ IF pc' = "failed"
       THEN ProcessingFailed(r.reason)
       ELSE /\ st_errors' =
                 IF r.raised
                 THEN st_errors \cup {StError("Failed to burn", lang, r.reason)}
                 ELSE st_errors
            /\ IF pc' = "completed" THEN Finish
               ELSE UNCHANGED <<status_text, processing_status>>

Burn(lang, srt_file, suffix, next) ==
    \E ffmpeg \in FfmpegKinds :
       BurnStep(lang,
                burn_subtitles_to_video(Exists(VideoPath(temp_dir)), Exists(srt_file),
                                        Path(temp_dir, VideoStem, suffix, "mp4"), ffmpeg),
                next)

\* Step 4, lines 178-187: the original video with the English subtitles
BurnEnglish ==
    /\ pc = "burn_english"
    /\ Burn("English", srt_path, "english", AfterBurnEnglish(translated_files))
    /\ UNCHANGED <<jobs, temp_dir, target_languages, srt_path, srt_text,
                   translated_files, temp_files, dirs>>
    /\ UNCHANGED otherVars

\* Step 4, lines 190-203: one pass of the loop over translated_files
BurnTranslated ==
    /\ pc = "burn_translated"
    /\ Burn(translated_files[idx][1], translated_files[idx][2],
            Lower(translated_files[idx][1]),
            AfterBurnTranslated(idx, Len(translated_files)))
    /\ UNCHANGED <<jobs, temp_dir, target_languages, srt_path, srt_text,
                   translated_files, temp_files, dirs>>
    /\ UNCHANGED otherVars

Next ==
    \/ RunScript
    \/ CleanTempFiles
    \/ ExtractAudio
    \/ Transcribe
    \/ Translate
    \/ BurnEnglish
    \/ BurnTranslated

Spec == Init /\ [][Next]_vars

\* process_video is one blocking call of a script run: once started, each of
\* its steps is taken when the external call it waits for has ended
Fairness ==
    /\ WF_vars(ExtractAudio)
    /\ WF_vars(Transcribe)
    /\ WF_vars(Translate)
    /\ WF_vars(BurnEnglish)
    /\ WF_vars(BurnTranslated)

SpecLive == Spec /\ Fairness

(***************************************************************************)
(* translate_text_libretranslate called on its own: every text and every   *)
(* pair of responses of the two services.                                  *)
(***************************************************************************)
Texts == { <<"Hello">>, <<"Hello", "world">>, <<LongLine>> }

\* what a service can answer to a query for `text`
Responses(kinds, text) ==
    {[kind |-> k, body |-> <<>>] : k \in kinds \ {"ok"}}
        \cup {[kind |-> "ok", body |-> b] : b \in {<<"Hola">>, text}}

TextInit ==
    /\ text_call \in {[text |-> t, primary |-> p, fallback |-> f, done |-> FALSE] :
                          t \in Texts,
                          p \in UNION {Responses(PrimaryKinds, t) : t \in Texts},
                          f \in UNION {Responses(FallbackKinds, t) : t \in Texts}}
    /\ text_result = Returned(<<>>, <<>>)

TranslateText ==
    /\ ~text_call.done
    /\ text_result' = translate_text_libretranslate(
                           text_call.text, text_call.primary, text_call.fallback)
    /\ text_call' = [text_call EXCEPT !.done = TRUE]
    /\ UNCHANGED <<appVars, srtVars, batchVars, libVars>>

TextNext == TranslateText

InitText == AppInit /\ TextInit /\ SrtIdle /\ BatchIdle /\ LibIdle

SpecText == InitText /\ [][TextNext]_vars

(***************************************************************************)
(* translate_srt called on its own: every language name, every transcript. *)
(***************************************************************************)
\* the names a caller may pass: the documented languages and two others
LanguageNames == {get_available_languages[k][1] : k \in 1..Len(get_available_languages)} \cup {"Klingon", "hebrew"}

\* a cue whose text is markup and nothing else
MarkupCue == <<"3", "00:00:06,000 --> 00:00:07,000", "<b></b>">>

\* the transcripts given to translate_srt
SrtTranscripts == Transcripts \cup { <<Cue2, MarkupCue>>, <<MarkupCue, Cue1, BadBlock>> }

SrtInit ==
    /\ srt_call \in [target_language : LanguageNames, blocks : SrtTranscripts,
                       mode : ServiceModes, write_ok : BOOLEAN, done : {FALSE}]
    /\ srt_result = SrtResult(FALSE, "", "", NoPath, <<>>, FALSE, <<>>)

TranslateSrt ==
    /\ ~srt_call.done
    /\ srt_result' = translate_srt(TRUE, srt_call.blocks, "transcription",
                                   srt_call.target_language, 1,
                                   Services(Len(srt_call.blocks), srt_call.mode),
                                   srt_call.write_ok)
    /\ srt_call' = [srt_call EXCEPT !.done = TRUE]
    /\ UNCHANGED <<appVars, textVars, batchVars, libVars>>

SrtNext == TranslateSrt

InitSrt == AppInit /\ TextIdle /\ SrtInit /\ BatchIdle /\ LibIdle

SpecSrt == InitSrt /\ [][SrtNext]_vars

(***************************************************************************)
(* batch_translate_srt called on its own: every list of language names,    *)
(* every transcript, every set of languages whose file cannot be written.  *)
(***************************************************************************)
BatchNames == {"Hebrew", "Spanish", "Korean"}

BatchInit ==
    batch \in {[pc |-> "loop", target_languages |-> l, blocks |-> b, failing |-> f,
                 idx |-> 1, translated_files |-> <<>>, attempted |-> <<>>] :
                   l \in UNION {[1..n -> BatchNames] : n \in 0..MaxBatch},
                   b \in Transcripts,
                   f \in SUBSET {"Hebrew", "Spanish"}}

\* translate_srt as batch_translate_srt calls it in this run
BatchTranslateSrt(language) ==
    translate_srt(TRUE, batch.blocks, "transcription", language, 1,
                  Services(Len(batch.blocks), "ok"), language \notin batch.failing)

\* `except ValueError` around translate_srt in batch_translate_srt
BatchCatchesValueError(exc) == exc = "ValueError"

\* line 220: except Exception around translate_srt
BatchCatches(exc) == IsException(exc)

\* lines 216-222: one pass of the loop
BatchTranslate ==
    /\ batch.pc = "loop"
    /\ batch.idx <= Len(batch.target_languages)
    /\ LET language == batch.target_languages[batch.idx]
           r == BatchTranslateSrt(language)
       IN batch' =
            [batch EXCEPT
               !.attempted = Append(@, language),
               !.translated_files =
                    IF r.raised THEN @ ELSE DictSet(@, language, r.path),
               !.idx = @ + 1,
               !.pc = IF r.raised /\ ~BatchCatches(r.exc) THEN "raised" ELSE "loop"]
    /\ UNCHANGED <<appVars, textVars, srtVars, libVars>>

\* line 224: return translated_files
BatchReturn ==
    /\ batch.pc = "loop"
    /\ batch.idx > Len(batch.target_languages)
    /\ batch' = [batch EXCEPT !.pc = "done"]
    /\ UNCHANGED <<appVars, textVars, srtVars, libVars>>

BatchNext == BatchTranslate \/ BatchReturn

InitBatch == AppInit /\ TextIdle /\ SrtIdle /\ BatchInit /\ LibIdle

SpecBatch == InitBatch /\ [][BatchNext]_vars

(***************************************************************************)
(* The subtitle codec called on its own: parse_srt_file on every file of   *)
(* up to MaxBlocks blocks, create_translated_srt followed by               *)
(* parse_srt_file on every list of up to MaxCues cues, and                 *)
(* create_srt_from_segments on every list of up to MaxCues segments.       *)
(***************************************************************************)
Timestamp1 == "00:00:01,000 --> 00:00:03,000"

\* the blocks of the files parsed: cues, and blocks that break one rule of
\* the format each
ParseBlocks ==
    { Cue1, Cue2, BadBlock,
      <<"3", Timestamp1, "two", "lines">>,
      <<"0", Timestamp1, "zero">>,
      <<"-1", Timestamp1, "negative">>,
      <<"3", "no timestamp here", "untimed">>,
      <<"3", Timestamp1>> }

\* the file holding the blocks, sep being the lines between two blocks
JoinBlocks(blocks, sep) ==
    LET RECURSIVE Go(_, _)
        Go(acc, k) == IF k > Len(blocks) THEN acc
                      ELSE Go(acc \o blocks[k] \o sep, k + 1)
    IN Go(<<>>, 1)

Separators == { <<"">>, <<" ", "">> }

\* the cues given to create_translated_srt: translated texts of one line, of
\* two lines, with a space at the end, and with an empty line inside
WrittenCues ==
    { [index |-> 1, timestamp |-> Timestamp1, text |-> <<"Hello world">>],
      [index |-> 2, timestamp |-> Timestamp1, text |-> <<"two", "lines">>],
      [index |-> 3, timestamp |-> Timestamp1, text |-> <<"Hello ">>],
      [index |-> 3, timestamp |-> Timestamp1, text |-> <<"a", "", "b">>] }

\* times in milliseconds: below a second, a minute and an hour, and above
SegmentTimes == {0, 1500, 61001, 3661250}

Segments ==
    {[start |-> a, end |-> b, text |-> t] :
        a \in SegmentTimes, b \in SegmentTimes, t \in {"Hi", " Hi "}}

CodecCall(op, blocks, lines, subtitles, segments, write_ok) ==
    [op |-> op, blocks |-> blocks, lines |-> lines, subtitles |-> subtitles,
     segments |-> segments, write_ok |-> write_ok, written |-> FALSE, done |-> FALSE]

CodecInit ==
    /\ codec_call \in
          {CodecCall("parse", b, JoinBlocks(b, sep), <<>>, <<>>, TRUE) :
              b \in UNION {[1..n -> ParseBlocks] : n \in 0..MaxBlocks},
              sep \in Separators}
          \cup {CodecCall("write", <<>>, <<>>, c, <<>>, TRUE) :
                   c \in UNION {[1..n -> WrittenCues] : n \in 0..MaxCues}}
          \cup {CodecCall("segments", <<>>, <<>>, <<>>, g, w) :
                   g \in UNION {[1..n -> {x \in Segments : x.start < x.end}] :
                                   n \in 0..MaxCues},
                   w \in BOOLEAN}
    /\ codec_result = <<>>

\* create_translated_srt writes the file parse_srt_file reads next
CreateTranslatedSrt ==
    /\ codec_call.op = "write"
    /\ codec_call' = [codec_call EXCEPT
                         !.op = "parse",
                         !.written = TRUE,
                         !.lines = SrtFileLines(create_translated_srt(codec_call.subtitles))]
    /\ UNCHANGED <<codec_result, tool_call, tool_result>>
    /\ UNCHANGED <<appVars, textVars, srtVars, batchVars>>

ParseSrtFile ==
    /\ codec_call.op = "parse"
    /\ ~codec_call.done
    /\ codec_result' = parse_srt_file(SplitBlocks(codec_call.lines))
    /\ codec_call' = [codec_call EXCEPT !.done = TRUE]
    /\ UNCHANGED <<tool_call, tool_result>>
    /\ UNCHANGED <<appVars, textVars, srtVars, batchVars>>

CreateSrtFromSegments ==
    /\ codec_call.op = "segments"
    /\ ~codec_call.done
    /\ codec_result' = create_srt_from_segments(codec_call.segments, codec_call.write_ok)
    /\ codec_call' = [codec_call EXCEPT !.done = TRUE]
    /\ UNCHANGED <<tool_call, tool_result>>
    /\ UNCHANGED <<appVars, textVars, srtVars, batchVars>>

CodecNext == CreateTranslatedSrt \/ ParseSrtFile \/ CreateSrtFromSegments

InitCodec == AppInit /\ TextIdle /\ SrtIdle /\ BatchIdle /\ CodecInit /\ ToolIdle

SpecCodec == InitCodec /\ [][CodecNext]_vars

(***************************************************************************)
(* The media tools called on their own: every combination of existing      *)
(* inputs, outcome of the external tool and style arguments.               *)
(***************************************************************************)
Positions == {"bottom", "top", "center", "Top", "left"}

FontColors == {"white", "yellow", "Red", "Purple", "orange"}

OutlineColors == {"black", "Purple"}

ToolCall(op, video_exists, srt_exists, tool, font_color, outline_color, position) ==
    [op |-> op, video_exists |-> video_exists, srt_exists |-> srt_exists, tool |-> tool,
     font_color |-> font_color, outline_color |-> outline_color,
     position |-> position, done |-> FALSE]

ToolInit ==
    /\ tool_call \in
          {ToolCall("get_video_info", v, TRUE, t, "", "", "") :
              v \in BOOLEAN, t \in FfprobeKinds}
          \cup {ToolCall("extract_audio_from_video", v, TRUE, t, "", "", "") :
                   v \in BOOLEAN, t \in FfmpegKinds}
          \cup {ToolCall("burn_subtitles_to_video", v, s, t, c, "", p) :
                   v \in BOOLEAN, s \in BOOLEAN, t \in FfmpegKinds,
                   c \in FontColors, p \in Positions}
          \cup {ToolCall("burn_subtitles_advanced", v, s, t, c, o, p) :
                   v \in BOOLEAN, s \in BOOLEAN, t \in FfmpegKinds,
                   c \in FontColors, o \in OutlineColors, p \in Positions}
    /\ tool_result = <<>>

\* what a call leaves: its result, and the style it gave the tool
ToolDone(r, style) == [r |-> r, style |-> style]

NoStyle == [PrimaryColour |-> "", Alignment |-> "", OutlineColour |-> ""]

ToolFrame ==
    /\ tool_call' = [tool_call EXCEPT !.done = TRUE]
    /\ UNCHANGED <<codec_call, codec_result>>
    /\ UNCHANGED <<appVars, textVars, srtVars, batchVars>>

GetVideoInfo ==
    /\ tool_call.op = "get_video_info"
    /\ ~tool_call.done
    /\ tool_result' = ToolDone(get_video_info(tool_call.video_exists, tool_call.tool),
                                NoStyle)
    /\ ToolFrame

ExtractAudioFromVideo ==
    /\ tool_call.op = "extract_audio_from_video"
    /\ ~tool_call.done
    /\ tool_result' = ToolDone(extract_audio_from_video(
                                    tool_call.video_exists,
                                    Path(1, VideoStem, "", "wav"), tool_call.tool),
                                NoStyle)
    /\ ToolFrame

BurnSubtitlesToVideo ==
    /\ tool_call.op = "burn_subtitles_to_video"
    /\ ~tool_call.done
    /\ tool_result' = ToolDone(burn_subtitles_to_video(
                                    tool_call.video_exists, tool_call.srt_exists,
                                    Path(1, VideoStem, "with_subtitles", "mp4"),
                                    tool_call.tool),
                                IF tool_call.video_exists /\ tool_call.srt_exists
                                THEN ForceStyle(tool_call.font_color, tool_call.position)
                                ELSE NoStyle)
    /\ ToolFrame

BurnSubtitlesAdvanced ==
    /\ tool_call.op = "burn_subtitles_advanced"
    /\ ~tool_call.done
    /\ tool_result' = ToolDone(burn_subtitles_advanced(
                                    tool_call.video_exists, tool_call.srt_exists,
                                    Path(1, VideoStem, "styled_subtitles", "mp4"),
                                    tool_call.tool),
                                IF tool_call.video_exists /\ tool_call.srt_exists
                                THEN AdvancedStyle(tool_call.font_color,
                                                   tool_call.outline_color,
                                                   tool_call.position)
                                ELSE NoStyle)
    /\ ToolFrame

ToolNext ==
    \/ GetVideoInfo
    \/ ExtractAudioFromVideo
    \/ BurnSubtitlesToVideo
    \/ BurnSubtitlesAdvanced

InitTools == AppInit /\ TextIdle /\ SrtIdle /\ BatchIdle /\ CodecIdle /\ ToolInit

SpecTools == InitTools /\ [][ToolNext]_vars

(***************************************************************************)
(* Properties.                                                             *)
(***************************************************************************)
Requested == {target_languages[k] : k \in 1..Len(target_languages)}

Attempted(op, lang) ==
    \E k \in 1..Len(calls) : calls[k].op = op /\ calls[k].lang = lang

Succeeded(op, lang) ==
    \E k \in 1..Len(calls) : calls[k].op = op /\ calls[k].lang = lang /\ calls[k].ok

FailedCall(op, lang) ==
    \E k \in 1..Len(calls) : calls[k].op = op /\ calls[k].lang = lang /\ ~calls[k].ok

Reported(what, lang) ==
    \E e \in st_errors : e.what = what /\ e.lang = lang /\ e.reason # <<>>

\* C1: a failure of translate_srt or of burn_subtitles_to_video for one
\* language never ends the Job as failed, and the completed Job has attempted
\* the translation of every requested language, the English render and the
\* render of every language whose translation succeeded.
C1_BranchFailureDoesNotAbort ==
    /\ (\E k \in 1..Len(calls) : calls[k].op \in {"translate", "burn"} /\ ~calls[k].ok)
          => pc \notin {"failed", "returned"}
    /\ pc = "completed" =>
          /\ \A lang \in Requested : Attempted("translate", lang)
          /\ Attempted("burn", "English")
          /\ \A lang \in Requested :
                Succeeded("translate", lang) => Attempted("burn", lang)

\* a Job completed although the first translation and the English render
\* failed, with the second language translated and rendered
C1_Witness ==
    /\ pc = "completed"
    /\ Len(target_languages) = 2
    /\ FailedCall("translate", target_languages[1])
    /\ FailedCall("burn", "English")
    /\ Succeeded("translate", target_languages[2])
    /\ Succeeded("burn", target_languages[2])

BatchLanguages == {batch.target_languages[k] : k \in 1..Len(batch.target_languages)}

\* the languages of the list in the order of their first occurrence, without
\* those whose translate_srt call raises
RECURSIVE SucceedingInOrder(_, _)
SucceedingInOrder(langs, seen) ==
    IF langs = <<>> THEN <<>>
    ELSE IF Head(langs) \in seen \/ BatchTranslateSrt(Head(langs)).raised
    THEN SucceedingInOrder(Tail(langs), seen)
    ELSE <<Head(langs)>> \o SucceedingInOrder(Tail(langs), seen \cup {Head(langs)})

\* C2: batch_translate_srt never raises; the map it returns holds exactly the
\* languages whose translate_srt call succeeds, every language of the list was
\* attempted, and the entries are those of the list without the failing
\* languages: each succeeding language once, with the path of its file.
C2_BatchIsolatesFailures ==
    /\ batch.pc # "raised"
    /\ batch.pc = "done" =>
          /\ DictKeys(batch.translated_files) =
                {lang \in BatchLanguages : ~BatchTranslateSrt(lang).raised}
          /\ batch.attempted = batch.target_languages
          /\ batch.translated_files =
                [k \in 1..Len(SucceedingInOrder(batch.target_languages, {})) |->
                   <<SucceedingInOrder(batch.target_languages, {})[k],
                     TranslatedPath(1, "transcription",
                                    SucceedingInOrder(batch.target_languages, {})[k])>>]

\* three languages, the second of which fails: the first and the third are
\* returned
C2_Witness ==
    /\ batch.pc = "done"
    /\ batch.target_languages = <<"Hebrew", "Korean", "Spanish">>
    /\ DictKeys(batch.translated_files) = {"Hebrew", "Spanish"}

FallbackCalled ==
    \E k \in 1..Len(text_result.calls) : text_result.calls[k].service = "fallback"

\* C3: translate_text_libretranslate never raises, whatever the two services
\* answer, and returns the input text when neither service gave a translation.
C3_TranslateTextNeverRaises ==
    text_call.done =>
        /\ ~text_result.raised
        /\ (text_call.primary.kind # "ok" /\ text_call.fallback.kind # "ok")
              => text_result.value = text_call.text

\* the primary service times out and the fallback answers without
\* responseData: the input text comes back
C3_Witness ==
    /\ text_call.done
    /\ text_call.primary.kind = "timeout"
    /\ text_call.fallback.kind = "no_data"
    /\ ~text_result.raised
    /\ text_result.value = text_call.text

\* C4: the fallback service is called on every transport error of the primary
\* service, and is not called when the primary service answered, even with a
\* text equal to the input.
C4_FallbackOnlyOnTransportError ==
    text_call.done =>
        /\ text_call.primary.kind \in {"connection_error", "timeout", "http_error"}
              => FallbackCalled
        /\ text_call.primary.kind \in {"ok", "no_key"} => ~FallbackCalled

\* the primary service answers with the input text: no fallback call
C4_Witness ==
    /\ text_call.done
    /\ text_call.primary.kind = "ok"
    /\ text_call.primary.body = text_call.text
    /\ text_result.value = text_call.text
    /\ ~FallbackCalled

\* C5: a failed extract_audio_from_video ends the Job as failed: it is the
\* only call of the Job, and the failure is reported.
C5_ExtractFailureIsFatal ==
    FailedCall("extract", "") =>
        /\ pc = "failed"
        /\ Len(calls) = 1
        /\ status_text = "Processing failed"
        /\ Reported("Processing failed", "")

C5_Witness ==
    /\ pc = "failed"
    /\ calls = <<Call("extract", "", FALSE)>>

\* C6: the Job goes past transcription only with a transcript that holds a
\* valid cue: after a failed transcription, or a transcript without a valid
\* cue, the Job is failed and transcribe_video was its last call.
C6_EmptyTranscriptIsFatal ==
    \A k \in 1..Len(calls) :
        (calls[k].op = "transcribe" /\ (~calls[k].ok \/ parse_srt_file(srt_text) = <<>>))
            => (pc = "failed" /\ Len(calls) = k)

\* the calls a Job makes when every branch is attempted
ExpectedCalls ==
    << <<"extract", "">>, <<"transcribe", "">> >>
        \o [k \in 1..Len(target_languages) |-> <<"translate", target_languages[k]>>]
        \o << <<"burn", "English">> >>
        \o [k \in 1..Len(translated_files) |-> <<"burn", translated_files[k][1]>>]

CallsMade == [k \in 1..Len(calls) |-> <<calls[k].op, calls[k].lang>>]

\* C7: the Job is completed exactly when, after the transcription, the
\* translation of every requested language, the English render and the render
\* of every translated language have been attempted; the results are stored
\* and completion is reported then, and not while a branch is outstanding.
C7_CompletedWhenAllAttempted ==
    /\ pc = "completed" <=> CallsMade = ExpectedCalls
    /\ pc = "completed" =>
          /\ processing_status.set
          /\ processing_status.temp_dir = temp_dir
          /\ status_text = "Processing completed successfully!"
    /\ pc \in {"extract", "transcribe", "translate", "burn_english", "burn_translated"}
          => /\ processing_status.temp_dir # temp_dir
             /\ status_text # "Processing completed successfully!"

\* completed with every translation done and the last render failed
C7_Witness ==
    /\ pc = "completed"
    /\ Len(translated_files) = 2
    /\ Len(calls) = 7
    /\ ~calls[7].ok
    /\ calls[6].ok

C9_FatalErrorWritesNoManifest ==
    /\ [](pc \in {"failed", "returned"} => processing_status.temp_dir # temp_dir)
    /\ [][pc' \in {"failed", "returned"} => processing_status' = processing_status]_vars

\* a Job failed in transcription, after a successful extraction
C9_Witness ==
    /\ pc = "failed"
    /\ Len(calls) = 2
    /\ calls[2] = Call("transcribe", "", FALSE)
    /\ processing_status.temp_dir # temp_dir

\* the languages the documentation lists as supported
DocumentedLanguages ==
    {"Hebrew", "Spanish", "French", "German", "Italian", "Portuguese", "Arabic",
     "Russian", "Chinese", "Japanese", "Korean", "Dutch", "Swedish", "Norwegian",
     "Danish"}

\* C10: translate_srt raises the unsupported-language error exactly for the
\* names outside the 15 documented languages, and raises it before the
\* subtitles are parsed or a translation call is made.
C10_UnsupportedExactlyOutsideDocumented ==
    srt_call.done =>
        /\ (srt_result.raised /\ srt_result.reason = "Unsupported language")
              <=> srt_call.target_language \notin DocumentedLanguages
        /\ srt_call.target_language \notin DocumentedLanguages
              => (~srt_result.parsed /\ srt_result.calls = <<>>)

\* C11: a transcript without a valid cue is rejected by both stages after it:
\* every translate_srt call and the burn_subtitles_to_video call on it fail,
\* and neither a translated subtitle file nor a video is written from it.
C11_EmptyCueSetRejected ==
    (srt_path # NoPath /\ parse_srt_file(srt_text) = <<>>) =>
        /\ \A k \in 1..Len(calls) :
              calls[k].op \in {"translate", "burn"} => ~calls[k].ok
        /\ \A f \in files : f.dir = temp_dir => f.suffix = ""

\* the first lines that are positive integers, and the second lines that are
\* a pair of timestamps, among the lines of ParseBlocks
PositiveIntLiterals == {"1", "2", "3", "01"}

TimestampLines == {Cue1[2], Cue2[2], BadBlock[2], Timestamp1}

WellFormedBlock(block) ==
    /\ Len(block) >= 3
    /\ block[1] \in PositiveIntLiterals
    /\ block[2] \in TimestampLines

CueOfBlock(block) ==
    [index |-> IntOf(block[1]), timestamp |-> block[2],
     text |-> SubSeq(block, 3, Len(block))]

ParseDone == codec_call.op = "parse" /\ codec_call.done /\ ~codec_call.written

\* C12: every cue parse_srt_file returns comes from a block of at least 3
\* lines whose first line is a positive integer and whose second line is a
\* pair of timestamps; a block failing one of the three gives no cue.
C12_OnlyValidBlocksAreCues ==
    ParseDone =>
        \A c \in 1..Len(codec_result) :
            \E k \in 1..Len(codec_call.blocks) :
                /\ WellFormedBlock(codec_call.blocks[k])
                /\ codec_result[c] = CueOfBlock(codec_call.blocks[k])

\* C13: parse_srt_file returns the well-formed blocks of the file as cues, all
\* of them and no other, in the order of the file.
C13_LenientParse ==
    ParseDone =>
        codec_result =
            [k \in 1..Len(SelectSeq(codec_call.blocks, WellFormedBlock)) |->
                CueOfBlock(SelectSeq(codec_call.blocks, WellFormedBlock)[k])]

\* C14: parse_srt_file on the file create_translated_srt wrote returns the
\* cues written: index, timestamp and text of each.
C14_RoundTrip ==
    (codec_call.op = "parse" /\ codec_call.done /\ codec_call.written) =>
        codec_result = codec_call.subtitles

\* the time in milliseconds a formatted timestamp HH:MM:SS,mmm denotes
TimestampMillis(ts) == ((ts[1] * 60 + ts[2]) * 60 + ts[3]) * 1000 + ts[4]

SegmentsWritten ==
    codec_call.op = "segments" /\ codec_call.done /\ ~codec_result.raised

HasTag(line) == line \in {"<i>Bye</i>", "<b></b>"}

TextHasTag(text) == \E k \in 1..Len(text) : HasTag(text[k])

SrtTranslated == srt_call.done /\ ~srt_result.raised

\* the texts sent to the translation services by the call, in order
SentTexts == [k \in 1..Len(srt_result.calls) |-> srt_result.calls[k].q]

\* C16 as stated: translate_srt sends no text with a tag to a translation
\* service, and no translated cue holds markup of its source cue.
C16_NoMarkupSentOrStored ==
    SrtTranslated =>
        /\ \A k \in 1..Len(SentTexts) : ~TextHasTag(SentTexts[k])
        /\ \A k \in 1..Len(srt_result.subtitles) :
              ~TextHasTag(srt_result.subtitles[k].text)

\* the cues of the source whose text is not empty once tags and outer white
\* space are removed
RECURSIVE TranslatableCues(_)
TranslatableCues(cues) ==
    IF cues = <<>> THEN <<>>
    ELSE IF CleanText(Head(cues).text) # <<>>
    THEN <<Head(cues)>> \o TranslatableCues(Tail(cues))
    ELSE TranslatableCues(Tail(cues))

\* C16 amended: translate_srt sends no text with a tag to a translation
\* service; a cue with text left after the tags are removed is sent without
\* them and stored as the text the translator returned, without markup; a cue
\* with nothing left is not sent and keeps its source text, markup included.
C16_MarkupStrippedUnlessNothingLeft ==
    SrtTranslated =>
        /\ \A k \in 1..Len(SentTexts) : ~TextHasTag(SentTexts[k])
        /\ Len(srt_result.subtitles) = Len(parse_srt_file(srt_call.blocks))
        /\ \A k \in 1..Len(srt_result.subtitles) :
              IF CleanText(parse_srt_file(srt_call.blocks)[k].text) # <<>>
              THEN /\ ~TextHasTag(srt_result.subtitles[k].text)
                   /\ \E c \in 1..Len(srt_result.calls) :
                         /\ srt_result.calls[c].service = "primary"
                         /\ srt_result.calls[c].q =
                               CleanText(parse_srt_file(srt_call.blocks)[k].text)
              ELSE srt_result.subtitles[k].text = parse_srt_file(srt_call.blocks)[k].text
        /\ Cardinality({c \in 1..Len(srt_result.calls) :
                           srt_result.calls[c].service = "primary"})
              = Len(TranslatableCues(parse_srt_file(srt_call.blocks)))

\* a cue in italics is sent without the tags and stored translated; the cue
\* that is markup only is not sent and stored as it was
C16_Witness ==
    /\ SrtTranslated
    /\ srt_call.blocks = <<Cue2, MarkupCue>>
    /\ srt_call.mode = "ok"
    /\ SentTexts = << <<"Bye">> >>
    /\ srt_result.subtitles[1].text = <<"Hola">>
    /\ srt_result.subtitles[2].text = <<"<b></b>">>

BurnDone ==
    /\ tool_call.done
    /\ tool_call.op \in {"burn_subtitles_to_video", "burn_subtitles_advanced"}

\* the burn call reached the style tables: both input files exist
Styled == BurnDone /\ tool_call.video_exists /\ tool_call.srt_exists

\* the names of the palette
Palette == {"white", "yellow", "red", "blue", "green", "black"}

\* C17: both burn operations give "bottom", "top" and "center" the three
\* distinct alignment codes 2, 8 and 5, give every other position the code of
\* "bottom", and give a font colour outside the palette the code of white.
C17_StyleMapping ==
    Styled =>
        /\ tool_call.position = "bottom" => tool_result.style.Alignment = "Alignment=2"
        /\ tool_call.position = "top" => tool_result.style.Alignment = "Alignment=8"
        /\ tool_call.position = "center" => tool_result.style.Alignment = "Alignment=5"
        /\ tool_call.position \notin {"bottom", "top", "center"}
              => tool_result.style.Alignment = "Alignment=2"
        /\ tool_call.font_color = "white"
              => tool_result.style.PrimaryColour = "&Hffffff&"
        /\ tool_call.font_color \in {"yellow", "Red"}
              => tool_result.style.PrimaryColour # "&Hffffff&"
        /\ LowerColor(tool_call.font_color) \notin Palette
              => tool_result.style.PrimaryColour = "&Hffffff&"

\* burn_subtitles_advanced with an unknown position and an unknown colour
C17_Witness ==
    /\ Styled
    /\ tool_call.op = "burn_subtitles_advanced"
    /\ tool_call.position = "left"
    /\ tool_call.font_color = "Purple"
    /\ tool_result.style.Alignment = "Alignment=2"
    /\ tool_result.style.PrimaryColour = "&Hffffff&"

\* C18: a burn operation returns a path only when both inputs exist, the tool
\* exited with code 0 and the output file exists, and fails in every other
\* case: an input missing, a non-zero exit, no output file, a timeout.
C18_BurnReturnsOnlyWithOutput ==
    BurnDone =>
        (~tool_result.r.raised <=>
            /\ tool_call.video_exists
            /\ tool_call.srt_exists
            /\ tool_call.tool = "exit0_output")

\* C19: when the external tool of get_video_info, extract_audio_from_video or
\* burn_subtitles_to_video exits non-zero, the call raises an error whose
\* message holds the text the tool wrote to stderr.
C19_StderrInError ==
    (/\ tool_call.done
     /\ tool_call.op \in {"get_video_info", "extract_audio_from_video",
                           "burn_subtitles_to_video"}
     /\ tool_call.video_exists
     /\ tool_call.srt_exists
     /\ tool_call.tool = "nonzero") =>
        /\ tool_result.r.raised
        /\ \E k \in 1..Len(tool_result.r.reason) : tool_result.r.reason[k] = Stderr

\* every call of the completed Job succeeded
AllSucceeded == pc = "completed" /\ \A k \in 1..Len(calls) : calls[k].ok

ManifestPaths(d) == {d[k][2] : k \in 1..Len(d)}

\* C20: when every step of a Job for N languages succeeds, the manifest holds
\* N+1 subtitle files and N+1 videos, one for English and one for each
\* requested language, all of them distinct files in the scratch directory
\* of the Job.
C20_AllSucceedGivesNPlusOne ==
    AllSucceeded =>
        /\ DictKeys(processing_status.srt_files) = Requested \cup {"English"}
        /\ DictKeys(processing_status.burned_videos) = Requested \cup {"English"}
        /\ Cardinality(ManifestPaths(processing_status.srt_files))
              = Len(target_languages) + 1
        /\ Cardinality(ManifestPaths(processing_status.burned_videos))
              = Len(target_languages) + 1
        /\ ManifestPaths(processing_status.srt_files)
              \cap ManifestPaths(processing_status.burned_videos) = {}
        /\ \A f \in ManifestPaths(processing_status.srt_files)
                     \cup ManifestPaths(processing_status.burned_videos) :
              /\ f.dir = temp_dir
              /\ f.dir = processing_status.temp_dir
              /\ Exists(f)

\* a Job for two languages with all of its seven calls succeeding
C20_Witness ==
    /\ AllSucceeded
    /\ Len(target_languages) = 2
    /\ Len(calls) = 7
    /\ Len(processing_status.srt_files) = 3
    /\ Len(processing_status.burned_videos) = 3

InProcessVideo ==
    pc \in {"extract", "transcribe", "translate", "burn_english", "burn_translated"}

\* C21: a step of process_video, whether it succeeds, fails a branch or fails
\* the Job, removes no scratch directory and no file; directories and files
\* go away only in a run of the script that calls cleanup_temp_files, which
\* empties st.session_state.temp_files.
C21_OnlyCleanupDeletes ==
    [][/\ InProcessVideo => (dirs \subseteq dirs' /\ files \subseteq files')
       /\ (~(dirs \subseteq dirs') \/ ~(files \subseteq files'))
             => (Idle /\ temp_files # <<>> /\ temp_files' = <<>>
                      /\ dirs' = cleanup_temp_files(temp_files, dirs))]_vars

\* a Job failed in transcription: its scratch directory, the uploaded video
\* and the extracted audio are still there
C21_Witness ==
    /\ pc = "failed"
    /\ Len(calls) = 2
    /\ temp_dir \in dirs
    /\ Exists(VideoPath(temp_dir))
    /\ Exists(Path(temp_dir, VideoStem, "", "wav"))

\* C22: the calls of a Job are made one at a time, extraction first and
\* transcription second, and the branches of the languages one after the
\* other: the render of a translated language is made before the translation
\* of the next language.
C22_OneBranchAtATime ==
    /\ Len(calls) >= 1 => calls[1].op = "extract"
    /\ Len(calls) >= 2 => calls[2].op = "transcribe"
    /\ \A i, j \in 1..Len(calls) :
          (i < j /\ calls[i].op = "translate" /\ calls[i].ok /\ calls[j].op = "translate")
             => \E m \in (i + 1)..(j - 1) :
                   calls[m].op = "burn" /\ calls[m].lang = calls[i].lang

\* C23: every external call made in a Job is given a timeout by its call
\* site: the probe of the upload and each call behind the pipeline calls.
C23_EveryCallHasTimeout ==
    /\ jobs > 0 => DictHas(CallTimeouts, "probe")
    /\ \A k \in 1..Len(calls) :
          \A c \in ExternalCalls(calls[k].op) : DictHas(CallTimeouts, c)

\* C24: a started Job ends, and ends in one of two ways: completed, with
\* completion reported and no failure of the Job, or failed, with the failure
\* reported and no completion.
C24_JobTerminates ==
    /\ InProcessVideo ~> (pc \in {"completed", "failed"})
    /\ [](pc = "completed" =>
             /\ status_text = "Processing completed successfully!"
             /\ ~Reported("Processing failed", ""))
    /\ [](pc = "failed" =>
             /\ status_text = "Processing failed"
             /\ Reported("Processing failed", "")
             /\ processing_status.temp_dir # temp_dir)

\* a Job that ended as failed when its transcription raised
C24_Witness ==
    /\ pc = "failed"
    /\ calls[Len(calls)].op = "transcribe"
    /\ status_text = "Processing failed"

\* C25: the cues translate_srt returns are those parse_srt_file read, one for
\* one and in the same order, each with the index and the timestamp of its
\* source cue; the file create_translated_srt writes holds that index and
\* timestamp as the first two lines of each block.
C25_TranslateKeepsIndexAndTimestamp ==
    SrtTranslated =>
        /\ Len(srt_result.subtitles) = Len(parse_srt_file(srt_call.blocks))
        /\ \A k \in 1..Len(srt_result.subtitles) :
              /\ srt_result.subtitles[k].index = parse_srt_file(srt_call.blocks)[k].index
              /\ srt_result.subtitles[k].timestamp
                    = parse_srt_file(srt_call.blocks)[k].timestamp
              /\ create_translated_srt(srt_result.subtitles)[k][1]
                    = ToString(parse_srt_file(srt_call.blocks)[k].index)
              /\ create_translated_srt(srt_result.subtitles)[k][2]
                    = parse_srt_file(srt_call.blocks)[k].timestamp

\* a file whose cues are numbered 3 and 1, with a block that is no cue after
\* them, translated: the two cues keep 3 and 1, in this order
C25_Witness ==
    /\ SrtTranslated
    /\ srt_call.blocks = <<MarkupCue, Cue1, BadBlock>>
    /\ srt_call.mode = "ok"
    /\ Len(srt_result.subtitles) = 2
    /\ srt_result.subtitles[1].index = 3
    /\ srt_result.subtitles[2].index = 1
    /\ srt_result.subtitles[2].text = <<"Hola">>

\* the manifest stored is that of the Job just completed
ManifestOfJob == pc = "completed" /\ processing_status.temp_dir = temp_dir

\* C26: in every stored manifest each language with a video has a subtitle
\* file and the English subtitle file is there; in the manifest of the Job
\* just completed a requested language has a subtitle file exactly when its
\* translate_srt call succeeded.
C26_VideosHaveSubtitles ==
    /\ processing_status.set =>
          /\ DictKeys(processing_status.burned_videos)
                \subseteq DictKeys(processing_status.srt_files)
          /\ DictHas(processing_status.srt_files, "English")
          /\ processing_status.srt_files[1][1] = "English"
    /\ ManifestOfJob =>
          \A k \in 1..Len(target_languages) :
              DictHas(processing_status.srt_files, target_languages[k])
                 <=> calls[2 + k] = Call("translate", target_languages[k], TRUE)

\* a manifest with the videos of English and of the second language, and the
\* subtitle files of English and of the second language only
C26_Witness ==
    /\ ManifestOfJob
    /\ Len(target_languages) = 2
    /\ DictKeys(processing_status.burned_videos) = {"English", target_languages[2]}
    /\ DictKeys(processing_status.srt_files) = {"English", target_languages[2]}

====
